---- MODULE Spec2Model ----
(***************************************************************************)
(* A model of the YouTube playlist downloader scripts app.py, tope.py and  *)
(* playlist.py: the filename sanitizer, the quality lookup, and one run of *)
(* main per browser session, with the yt-dlp and ffmpeg subprocesses and   *)
(* the cookie files the sessions put on the shared disk.                   *)
(***************************************************************************)
EXTENDS Integers, Sequences, FiniteSets, TLC

VARIABLES
    name,           \* sanitize_filename: the argument, a sequence of characters
    sanitized,      \* sanitize_filename: the value returned, or Unset
    quality,        \* the selectbox label picked in the current run
    playlist_url,   \* the text typed in the URL box in the current run
    uploaded,       \* whether a cookies.txt was uploaded in the current run
    format_string,  \* variant -> the selector main computes for quality
    earlier,        \* label -> the selectors computed for it in earlier runs
    base_path,      \* sanitize_filename's caller: the base download path of the platform
    output_dir,     \* os.path.join(base_path, sanitized_title), or Unset
    variant,        \* which script the server runs: app.py, tope.py or playlist.py
    files,          \* the disk: cookie file path -> its content, or Absent
    procs,          \* the yt-dlp processes that exist now
    pc,             \* session -> where its run of main stands
    cookies_path,   \* session -> cookies_path / temp_cookie_path, or None
    created,        \* session -> the cookie file this run created on disk, or None
    ffmpeg,         \* session -> how the ffmpeg -version probe ended
    meta,           \* session -> how yt-dlp --dump-single-json ended
    flat,           \* session -> how yt-dlp --flat-playlist --dump-json ended
    videos_json,    \* session -> the lines of the enumeration's output
    button,         \* session -> the button whose click this run serves
    idx,            \* session -> idx of the download loop / of the button clicked
    success_count,  \* session -> success_count of the Download All loop
    progress_bar,   \* session -> the step the progress bar stands at
    started,        \* session -> the entries whose download process was started
    outcomes,       \* session -> how each attempted download ended, in order
    launched,       \* session -> the number of yt-dlp processes this run started
    msgs,           \* session -> the banners this run has rendered
    dirs,           \* session -> the directories this run has created
    session_state   \* session -> the entries st.session_state marks downloaded

pureVars == <<name, sanitized, quality, playlist_url, uploaded, format_string, earlier,
              base_path, output_dir>>

runVars == <<variant, files, procs, pc, cookies_path, created, ffmpeg, meta, flat,
             videos_json, button, idx, success_count, progress_bar, started, outcomes,
             launched, msgs, dirs, session_state>>

vars == <<pureVars, runVars>>

Unset == <<"unset">>

\* ---------------------------------------------------------------- bounds
MaxLen == 3
MaxVideos == 2

\* ------------------------------------------------- sanitize_filename
\* The characters of the regular expression [<>:"/\\|?*].
invalid_chars == {"<", ">", ":", "\"", "/", "\\", "|", "?", "*"}

\* str.strip() with no argument strips whitespace.
Whitespace == {" ", "\t"}

\* The characters rstrip(". ") strips.
TrailingChars == {".", " "}

\* The characters names are drawn from: the nine reserved ones, the ones the
\* trimming is about, and two ordinary ones.
Alphabet == invalid_chars \cup Whitespace \cup TrailingChars \cup {"a", "_"}

Names == UNION {[1..n -> Alphabet] : n \in 0..MaxLen}

\* re.sub with a character class that lacks the two path separators.
re_sub_keeps_separators(s) ==
    [i \in DOMAIN s |-> IF s[i] \in invalid_chars \ {"/", "\\"} THEN "_" ELSE s[i]]

\* re.sub(invalid_chars, "_", name)
re_sub(s) == [i \in DOMAIN s |-> IF s[i] \in invalid_chars THEN "_" ELSE s[i]]

RECURSIVE lstrip(_, _)
lstrip(s, chars) ==
    IF s # <<>> /\ Head(s) \in chars THEN lstrip(Tail(s), chars) ELSE s

RECURSIVE rstrip(_, _)
rstrip(s, chars) ==
    IF s # <<>> /\ s[Len(s)] \in chars
    THEN rstrip(SubSeq(s, 1, Len(s) - 1), chars)
    ELSE s

strip(s) == rstrip(lstrip(s, Whitespace), Whitespace)

\* sanitize_filename with the trailing rstrip(". ") left out.
sanitize_filename_no_rstrip(s) == strip(re_sub(s))

sanitize_filename(s) == rstrip(strip(re_sub(s)), TrailingChars)

\* ------------------------------------------------- the download directory
\* The three base paths main chooses among, as sequences of path tokens: a
\* separator, a drive, or a directory name. Termux's ends with a separator.
TermuxBase == <<"/", "data", "/", "data", "/", "com.termux", "/", "files", "/", "home", "/",
                "storage", "/", "downloads", "/">>
WindowsBase == <<"C:", "\\", "Users", "\\", "uname", "\\", "Downloads">>
UnixBase == <<"/", "opt", "/", "render", "/", "project", "/", "src", "/", "downloads">>

BasePaths == {TermuxBase, WindowsBase, UnixBase}

\* platform.system() == "Windows": os.path is ntpath there, posixpath elsewhere.
IsWindows(base) == base = WindowsBase

\* posixpath.join(a, b): b alone when it is absolute, else a and b with one "/"
\* between them unless a is empty or already ends with "/".
posix_join(a, b) ==
    IF b # <<>> /\ b[1] = "/" THEN b
    ELSE IF a = <<>> \/ a[Len(a)] = "/" THEN a \o b
    ELSE a \o <<"/">> \o b

\* ntpath.join(a, b): b alone when it names a drive of its own; a's drive and b
\* when b is rooted; else a and b with one "\" between them unless a ends with a
\* separator or a colon.
nt_join(a, b) ==
    IF Len(b) >= 2 /\ b[2] = ":" THEN b
    ELSE IF b # <<>> /\ b[1] \in {"/", "\\"} THEN <<a[1]>> \o b
    ELSE IF a = <<>> \/ a[Len(a)] \in {"/", "\\", ":"} THEN a \o b
    ELSE a \o <<"\\">> \o b

\* os.path.join(base_path, sanitized_title)
os_path_join(a, b) == IF IsWindows(a) THEN nt_join(a, b) ELSE posix_join(a, b)

\* ------------------------------------------------- the quality lookup
Variants == {"app", "tope", "playlist"}

\* The options of st.selectbox.
Labels == {"High", "Medium (720p)", "Low (360p)"}

\* What the URL box can hold: nothing, or one of two playlist URLs.
Urls == {"", "https://youtube.com/playlist?list=A", "https://youtube.com/playlist?list=B"}

NoFormat == "no format_string"

\* The dict literal of app.py.
format_dict(q) ==
    CASE q = "High" -> "bestvideo+bestaudio/best"
      [] q = "Medium (720p)" -> "bestvideo[height<=720]+bestaudio[ext=m4a]/best[height<=720]"
      [] q = "Low (360p)" -> "bestvideo[height<=360]+bestaudio[ext=m4a]/best[height<=360]"

\* The if/elif/else chain with the elif comparing against a label the selectbox
\* never yields, so that Medium falls through to the else branch.
format_chain_elif_typo(q) ==
    IF q = "High" THEN "bestvideo+bestaudio/best"
    ELSE IF q = "Medium" THEN
        "bestvideo[height<=720]+bestaudio[ext=m4a]/bestvideo[height<=720]+bestaudio/best[height<=720]"
    ELSE
        "bestvideo[height<=360]+bestaudio[ext=m4a]/bestvideo[height<=360]+bestaudio/best[height<=360]"

\* The if/elif/else chain of tope.py and playlist.py.
format_chain(q) ==
    IF q = "High" THEN "bestvideo+bestaudio/best"
    ELSE IF q = "Medium (720p)" THEN
        "bestvideo[height<=720]+bestaudio[ext=m4a]/bestvideo[height<=720]+bestaudio/best[height<=720]"
    ELSE
        "bestvideo[height<=360]+bestaudio[ext=m4a]/bestvideo[height<=360]+bestaudio/best[height<=360]"

\* The format_string main holds after its "if playlist_url:" block: nothing
\* when the URL box is empty, else the lookup of the variant.
main_format_string(v, q, url, cookies) ==
    IF url = "" THEN NoFormat
    ELSE IF v = "app" THEN format_dict(q)
    ELSE format_chain(q)

\* ------------------------------------------------- one run of main per session
\* Two browser sessions of the one Streamlit server; each uploads its own cookies.
Sessions == {"s1", "s2"}

None == "none"
Absent == "absent"

\* tope.py: os.path.join(base_path, "cookies.txt"), the same path in every session.
FixedCookiePath == "base_path/cookies.txt"

\* app.py: NamedTemporaryFile(delete=False, suffix=".txt") gives each call a fresh name.
TempName(s) == IF s = "s1" THEN "tmp/s1.txt" ELSE "tmp/s2.txt"

Paths == {FixedCookiePath} \cup {TempName(s) : s \in Sessions}

\* The content session s uploads is told apart by the session's name.
Upload(s) == s

\* pc values at which a run of main is over: it returned, st.stop() ended it, or
\* an exception no handler of main catches ended it.
Ended == {"done", "stopped", "crashed"}

\* How the playlist enumeration's output lines parse: a JSON object, or not JSON.
Lines == UNION {[1..n -> {"json", "not json"}] : n \in 0..MaxVideos}

\* check_ffmpeg with the except branch returning True as well.
check_ffmpeg_always(r) == TRUE

\* check_ffmpeg: True when ffmpeg -version ran and exited 0 (check=True raises on
\* a non-zero exit, and a launch failure raises too; both are caught).
check_ffmpeg(r) == r = "exit0"

\* download_video returning True whenever the process ran, whatever its code.
download_video_any_exit(o) == o # "raised"

\* download_video's return value: result.returncode == 0, False when
\* subprocess.run raised.
download_video(o) == o = "exit0"

\* for idx, video in enumerate(videos, start=1): whether an entry follows entry i,
\* whatever the download of entry i returned.
loop_continues(i, n, ok) == i < n

\* subprocess.run returning while its process still exists.
reaped_none(s) == {}

\* subprocess.run returns when the process it started has exited.
reaped(s) == {p \in procs : p.owner = s}

\* Where control goes when the try block of app.py / tope.py is left, normally or
\* through one of its except clauses.
leave_try == IF variant = "app" THEN "finally" ELSE "cleanup"

\* The yt-dlp process session s starts: --cookies cookies_path when one is set;
\* the process loads the file as it starts.
YtDlp(s, kind, i) ==
    [owner |-> s, kind |-> kind, index |-> i, cookies |-> cookies_path[s],
     read |-> IF cookies_path[s] = None THEN None ELSE files[cookies_path[s]]]

RunInit ==
    /\ files = [p \in Paths |-> Absent]
    /\ procs = {}
    /\ pc = [s \in Sessions |-> "start"]
    /\ cookies_path = [s \in Sessions |-> None]
    /\ created = [s \in Sessions |-> None]
    /\ ffmpeg = [s \in Sessions |-> None]
    /\ meta = [s \in Sessions |-> None]
    /\ flat = [s \in Sessions |-> None]
    /\ videos_json = [s \in Sessions |-> <<>>]
    /\ button = [s \in Sessions |-> None]
    /\ idx = [s \in Sessions |-> 0]
    /\ success_count = [s \in Sessions |-> 0]
    /\ progress_bar = [s \in Sessions |-> 0]
    /\ started = [s \in Sessions |-> <<>>]
    /\ outcomes = [s \in Sessions |-> <<>>]
    /\ launched = [s \in Sessions |-> 0]
    /\ msgs = [s \in Sessions |-> {}]
    /\ dirs = [s \in Sessions |-> {}]
    /\ session_state = [s \in Sessions |-> {}]

PureInit ==
    /\ name = <<>>
    /\ sanitized = Unset
    /\ quality = "High"
    /\ playlist_url = ""
    /\ uploaded = FALSE
    /\ format_string = [v \in Variants |-> NoFormat]
    /\ earlier = [q \in Labels |-> {}]
    /\ base_path = UnixBase
    /\ output_dir = Unset

Init ==
    /\ variant \in Variants
    /\ RunInit
    /\ PureInit

\* check_ffmpeg() and the st.error / st.stop() that follow a failed probe.
CheckFfmpeg(s) ==
    /\ pc[s] = "start"
    /\ \E r \in {"exit0", "exit1", "cannot launch"} :
        /\ ffmpeg' = [ffmpeg EXCEPT ![s] = r]
        /\ IF check_ffmpeg(r)
           THEN /\ pc' = [pc EXCEPT ![s] = "base_path"]
                /\ msgs' = msgs
           ELSE /\ pc' = [pc EXCEPT ![s] = "stopped"]
                /\ msgs' = [msgs EXCEPT ![s] = @ \cup {"ffmpeg not found"}]
    /\ UNCHANGED <<pureVars, variant, files, procs, cookies_path, created, meta, flat,
                   videos_json, button, idx, success_count, progress_bar, started,
                   outcomes, launched, dirs, session_state>>

\* The base path: app.py and tope.py create it, playlist.py only names it.
SetBasePath(s) ==
    /\ pc[s] = "base_path"
    /\ dirs' = [dirs EXCEPT ![s] = IF variant = "playlist" THEN @ ELSE @ \cup {"base_path"}]
    /\ pc' = [pc EXCEPT ![s] = CASE variant = "app" -> "url"
                                 [] variant = "tope" -> "save_cookies"
                                 [] variant = "playlist" -> "button"]
    /\ UNCHANGED <<pureVars, variant, files, procs, cookies_path, created, ffmpeg, meta,
                   flat, videos_json, button, idx, success_count, progress_bar, started,
                   outcomes, launched, msgs, session_state>>

\* tope.py: an uploaded cookies.txt is written to the fixed path, open(..., "wb")
\* truncating whatever is there.
SaveCookiesTope(s) ==
    /\ pc[s] = "save_cookies"
    /\ variant = "tope"
    /\ \E up \in BOOLEAN :
        IF up
        THEN /\ files' = [files EXCEPT ![FixedCookiePath] = Upload(s)]
             /\ cookies_path' = [cookies_path EXCEPT ![s] = FixedCookiePath]
             /\ created' = [created EXCEPT ![s] = FixedCookiePath]
        ELSE UNCHANGED <<files, cookies_path, created>>
    /\ pc' = [pc EXCEPT ![s] = "url"]
    /\ UNCHANGED <<pureVars, variant, procs, ffmpeg, meta, flat, videos_json, button, idx,
                   success_count, progress_bar, started, outcomes, launched, msgs, dirs,
                   session_state>>

\* app.py: an uploaded cookies.txt is decoded and written to a fresh temporary
\* file. The file exists once NamedTemporaryFile returns; decode() raising
\* UnicodeDecodeError leaves main before temp_cookie_path is set and outside the try.
SaveCookiesApp(s) ==
    /\ pc[s] = "save_cookies"
    /\ variant = "app"
    /\ \E up \in BOOLEAN, decodable \in BOOLEAN :
        IF ~up
        THEN /\ pc' = [pc EXCEPT ![s] = "fetch_meta"]
             /\ UNCHANGED <<files, cookies_path, created>>
        ELSE /\ created' = [created EXCEPT ![s] = TempName(s)]
             /\ IF decodable
                THEN /\ files' = [files EXCEPT ![TempName(s)] = Upload(s)]
                     /\ cookies_path' = [cookies_path EXCEPT ![s] = TempName(s)]
                     /\ pc' = [pc EXCEPT ![s] = "fetch_meta"]
                ELSE /\ files' = [files EXCEPT ![TempName(s)] = "empty"]
                     /\ cookies_path' = cookies_path
                     /\ pc' = [pc EXCEPT ![s] = "crashed"]
    /\ UNCHANGED <<pureVars, variant, procs, ffmpeg, meta, flat, videos_json, button, idx,
                   success_count, progress_bar, started, outcomes, launched, msgs, dirs,
                   session_state>>

\* playlist.py: everything else happens only in the run the Start Download click
\* triggers.
PressStart(s) ==
    /\ pc[s] = "button"
    /\ variant = "playlist"
    /\ \E pressed \in BOOLEAN :
        IF pressed
        THEN /\ button' = [button EXCEPT ![s] = "start"]
             /\ pc' = [pc EXCEPT ![s] = "url"]
        ELSE /\ button' = button
             /\ pc' = [pc EXCEPT ![s] = "done"]
    /\ UNCHANGED <<pureVars, variant, files, procs, cookies_path, created, ffmpeg, meta,
                   flat, videos_json, idx, success_count, progress_bar, started, outcomes,
                   launched, msgs, dirs, session_state>>

\* The "if playlist_url:" test (app.py, tope.py) and the "if not playlist_url:"
\* test (playlist.py).
EnterUrl(s) ==
    /\ pc[s] = "url"
    /\ \E typed \in BOOLEAN :
        IF typed
        THEN /\ pc' = [pc EXCEPT ![s] = IF variant = "app" THEN "save_cookies" ELSE "fetch_meta"]
             /\ msgs' = msgs
        ELSE /\ pc' = [pc EXCEPT ![s] = IF variant = "tope" THEN "cleanup" ELSE "done"]
             /\ msgs' = [msgs EXCEPT ![s] =
                            IF variant = "playlist" THEN @ \cup {"enter a valid URL"} ELSE @]
    /\ UNCHANGED <<pureVars, variant, files, procs, cookies_path, created, ffmpeg, meta,
                   flat, videos_json, button, idx, success_count, progress_bar, started,
                   outcomes, launched, dirs, session_state>>

\* subprocess.run(["yt-dlp", "--dump-single-json", ...]) starts its process and blocks.
FetchMetaStart(s) ==
    /\ pc[s] = "fetch_meta"
    /\ procs' = procs \cup {YtDlp(s, "meta", 0)}
    /\ launched' = [launched EXCEPT ![s] = @ + 1]
    /\ pc' = [pc EXCEPT ![s] = "wait_meta"]
    /\ UNCHANGED <<pureVars, variant, files, cookies_path, created, ffmpeg, meta, flat,
                   videos_json, button, idx, success_count, progress_bar, started,
                   outcomes, msgs, dirs, session_state>>

\* The metadata process exits: check=True raises CalledProcessError on a non-zero
\* exit, json.loads raises JSONDecodeError on output that is not JSON; otherwise
\* the title is sanitized and the download directory made. playlist.py catches
\* CalledProcessError only.
FetchMetaExit(s) ==
    /\ pc[s] = "wait_meta"
    /\ procs' = procs \ reaped(s)
    /\ \E r \in {"exit0", "exit1", "not json"} :
        /\ meta' = [meta EXCEPT ![s] = r]
        /\ CASE r = "exit0" ->
                  /\ dirs' = [dirs EXCEPT ![s] = @ \cup {"output_dir"}]
                  /\ pc' = [pc EXCEPT ![s] = "fetch_flat"]
                  /\ msgs' = msgs
             [] r = "exit1" ->
                  /\ dirs' = dirs
                  /\ pc' = [pc EXCEPT ![s] = IF variant = "playlist" THEN "done" ELSE leave_try]
                  /\ msgs' = [msgs EXCEPT ![s] = @ \cup {"error fetching playlist"}]
             [] r = "not json" ->
                  /\ dirs' = dirs
                  /\ IF variant = "playlist"
                     THEN /\ pc' = [pc EXCEPT ![s] = "crashed"]
                          /\ msgs' = msgs
                     ELSE /\ pc' = [pc EXCEPT ![s] = leave_try]
                          /\ msgs' = [msgs EXCEPT ![s] = @ \cup {"failed to parse playlist"}]
    /\ UNCHANGED <<pureVars, variant, files, cookies_path, created, ffmpeg, flat,
                   videos_json, button, idx, success_count, progress_bar, started,
                   outcomes, launched, session_state>>

\* subprocess.run(["yt-dlp", "--flat-playlist", "--dump-json", ...]) starts and blocks.
FetchFlatStart(s) ==
    /\ pc[s] = "fetch_flat"
    /\ procs' = procs \cup {YtDlp(s, "flat", 0)}
    /\ launched' = [launched EXCEPT ![s] = @ + 1]
    /\ pc' = [pc EXCEPT ![s] = "wait_flat"]
    /\ UNCHANGED <<pureVars, variant, files, cookies_path, created, ffmpeg, meta, flat,
                   videos_json, button, idx, success_count, progress_bar, started,
                   outcomes, msgs, dirs, session_state>>

\* The enumeration process exits. app.py and tope.py parse every line at once,
\* inside the try; playlist.py keeps the lines and enters its download loop.
FetchFlatExit(s) ==
    /\ pc[s] = "wait_flat"
    /\ procs' = procs \ reaped(s)
    /\ \/ /\ flat' = [flat EXCEPT ![s] = "exit1"]
          /\ msgs' = [msgs EXCEPT ![s] = @ \cup {"error fetching playlist"}]
          /\ pc' = [pc EXCEPT ![s] = IF variant = "playlist" THEN "done" ELSE leave_try]
          /\ UNCHANGED <<videos_json, idx, progress_bar>>
       \/ \E lines \in Lines :
          /\ flat' = [flat EXCEPT ![s] = "exit0"]
          /\ videos_json' = [videos_json EXCEPT ![s] = lines]
          /\ IF variant = "playlist"
             THEN /\ msgs' = [msgs EXCEPT ![s] =
                                 IF Len(lines) = 0 THEN @ \cup {"all videos downloaded"} ELSE @]
                  /\ idx' = [idx EXCEPT ![s] = IF Len(lines) = 0 THEN @ ELSE 1]
                  /\ pc' = [pc EXCEPT ![s] = IF Len(lines) = 0 THEN "done" ELSE "download"]
                  /\ UNCHANGED progress_bar
             ELSE IF \E i \in DOMAIN lines : lines[i] = "not json"
             THEN /\ msgs' = [msgs EXCEPT ![s] = @ \cup {"failed to parse playlist"}]
                  /\ pc' = [pc EXCEPT ![s] = leave_try]
                  /\ UNCHANGED <<idx, progress_bar>>
             ELSE /\ msgs' = msgs
                  /\ pc' = [pc EXCEPT ![s] = "buttons"]
                  /\ UNCHANGED <<idx, progress_bar>>
    /\ UNCHANGED <<pureVars, variant, files, cookies_path, created, ffmpeg, meta, button,
                   success_count, started, outcomes, launched, dirs, session_state>>

\* app.py, tope.py: the buttons of the rendered page. A run serves the click that
\* triggered it: none, one "Download #k", or "Download All Videos".
ClickButton(s) ==
    /\ pc[s] = "buttons"
    /\ \/ /\ pc' = [pc EXCEPT ![s] = leave_try]
          /\ UNCHANGED <<button, idx, msgs>>
       \/ \E k \in DOMAIN videos_json[s] :
          /\ button' = [button EXCEPT ![s] = "single"]
          /\ idx' = [idx EXCEPT ![s] = k]
          /\ pc' = [pc EXCEPT ![s] = "download"]
          /\ msgs' = msgs
       \/ /\ button' = [button EXCEPT ![s] = "all"]
          /\ IF Len(videos_json[s]) = 0
             THEN /\ msgs' = [msgs EXCEPT ![s] = @ \cup {"successfully downloaded count"}]
                  /\ pc' = [pc EXCEPT ![s] = leave_try]
                  /\ idx' = idx
             ELSE /\ msgs' = msgs
                  /\ pc' = [pc EXCEPT ![s] = "download"]
                  /\ idx' = [idx EXCEPT ![s] = 1]
    /\ UNCHANGED <<pureVars, variant, files, procs, cookies_path, created, ffmpeg, meta,
                   flat, videos_json, success_count, progress_bar, started, outcomes,
                   launched, dirs, session_state>>

\* What follows the download of entry idx having ended with outcome o.
\* app.py, tope.py: download_video returns; a single click marks session_state, the
\* Download All loop counts, moves the progress bar and goes on or reports.
\* playlist.py: the loop moves the progress bar and goes on or reports.
AfterDownload(s, o) ==
    LET n == Len(videos_json[s])
        ok == download_video(o)
        more == loop_continues(idx[s], n, ok)
    IN  /\ outcomes' = [outcomes EXCEPT ![s] = Append(@, o)]
        /\ IF button[s] = "single"
           THEN /\ session_state' = [session_state EXCEPT ![s] = IF ok THEN @ \cup {idx[s]} ELSE @]
                /\ pc' = [pc EXCEPT ![s] = leave_try]
                /\ UNCHANGED <<idx, success_count, progress_bar, msgs>>
           ELSE /\ success_count' = [success_count EXCEPT ![s] =
                                        IF button[s] = "all" /\ ok THEN @ + 1 ELSE @]
                /\ progress_bar' = [progress_bar EXCEPT ![s] = idx[s]]
                /\ idx' = [idx EXCEPT ![s] = IF more THEN @ + 1 ELSE @]
                /\ pc' = [pc EXCEPT ![s] = IF more THEN "download"
                                           ELSE IF variant = "playlist" THEN "done"
                                           ELSE leave_try]
                /\ msgs' = [msgs EXCEPT ![s] =
                               IF more THEN @
                               ELSE IF variant = "playlist" THEN @ \cup {"all videos downloaded"}
                               ELSE @ \cup {"successfully downloaded count"}]
                /\ UNCHANGED session_state

\* The download of entry idx begins. playlist.py first parses the entry's line,
\* outside any try. subprocess.run then starts the process and blocks, or raises
\* without a process: download_video catches that, playlist.py does not.
DownloadStart(s) ==
    /\ pc[s] = "download"
    /\ IF variant = "playlist" /\ videos_json[s][idx[s]] = "not json"
       THEN /\ pc' = [pc EXCEPT ![s] = "crashed"]
            /\ UNCHANGED <<procs, launched, started, outcomes, idx, success_count,
                           progress_bar, msgs, session_state>>
       ELSE \/ /\ procs' = procs \cup {YtDlp(s, "download", idx[s])}
               /\ launched' = [launched EXCEPT ![s] = @ + 1]
               /\ started' = [started EXCEPT ![s] = Append(@, idx[s])]
               /\ pc' = [pc EXCEPT ![s] = "wait_download"]
               /\ UNCHANGED <<outcomes, idx, success_count, progress_bar, msgs, session_state>>
            \/ /\ variant = "playlist"
               /\ pc' = [pc EXCEPT ![s] = "crashed"]
               /\ UNCHANGED <<procs, launched, started, outcomes, idx, success_count,
                              progress_bar, msgs, session_state>>
            \/ /\ variant # "playlist"
               /\ AfterDownload(s, "raised")
               /\ UNCHANGED <<procs, launched, started>>
    /\ UNCHANGED <<pureVars, variant, files, cookies_path, created, ffmpeg, meta, flat,
                   videos_json, button, dirs>>

\* The download process exits with code 0 or not, and subprocess.run returns.
DownloadExit(s) ==
    /\ pc[s] = "wait_download"
    /\ procs' = procs \ reaped(s)
    /\ \E o \in {"exit0", "exit1"} : AfterDownload(s, o)
    /\ UNCHANGED <<pureVars, variant, files, cookies_path, created, ffmpeg, meta, flat,
                   videos_json, button, started, launched, dirs>>

\* app.py: the finally clause of the try.
Finally(s) ==
    /\ pc[s] = "finally"
    /\ files' = IF cookies_path[s] # None /\ files[cookies_path[s]] # Absent
                THEN [files EXCEPT ![cookies_path[s]] = Absent]
                ELSE files
    /\ pc' = [pc EXCEPT ![s] = "done"]
    /\ UNCHANGED <<pureVars, variant, procs, cookies_path, created, ffmpeg, meta, flat,
                   videos_json, button, idx, success_count, progress_bar, started,
                   outcomes, launched, msgs, dirs, session_state>>

\* tope.py: the clean-up at the end of main.
Cleanup(s) ==
    /\ pc[s] = "cleanup"
    /\ files' = IF cookies_path[s] # None /\ files[cookies_path[s]] # Absent
                THEN [files EXCEPT ![cookies_path[s]] = Absent]
                ELSE files
    /\ pc' = [pc EXCEPT ![s] = "done"]
    /\ UNCHANGED <<pureVars, variant, procs, cookies_path, created, ffmpeg, meta, flat,
                   videos_json, button, idx, success_count, progress_bar, started,
                   outcomes, launched, msgs, dirs, session_state>>

Next ==
    \E s \in Sessions :
        \/ CheckFfmpeg(s)
        \/ SetBasePath(s)
        \/ SaveCookiesTope(s)
        \/ SaveCookiesApp(s)
        \/ PressStart(s)
        \/ EnterUrl(s)
        \/ FetchMetaStart(s)
        \/ FetchMetaExit(s)
        \/ FetchFlatStart(s)
        \/ FetchFlatExit(s)
        \/ ClickButton(s)
        \/ DownloadStart(s)
        \/ DownloadExit(s)
        \/ Finally(s)
        \/ Cleanup(s)

Spec == Init /\ [][Next]_vars

\* ------------------------------------------------- the sanitizer on its own
\* A session's run idles while the pure functions are exercised.
RunIdle == variant = "app" /\ RunInit

SanitizeInit ==
    /\ name \in Names
    /\ sanitized = Unset
    /\ quality = "High"
    /\ playlist_url = ""
    /\ uploaded = FALSE
    /\ format_string = [v \in Variants |-> NoFormat]
    /\ earlier = [q \in Labels |-> {}]
    /\ base_path \in BasePaths
    /\ output_dir = Unset
    /\ RunIdle

\* sanitized_title = sanitize_filename(playlist_title)
\* output_dir = os.path.join(base_path, sanitized_title)
Sanitize ==
    /\ sanitized = Unset
    /\ sanitized' = sanitize_filename(name)
    /\ output_dir' = os_path_join(base_path, sanitized')
    /\ UNCHANGED <<name, quality, playlist_url, uploaded, format_string, earlier, base_path,
                   runVars>>

SanitizeNext == Sanitize

SpecSanitize == SanitizeInit /\ [][SanitizeNext]_vars

\* ------------------------------------------------- the quality lookup on its own
FormatInit == RunIdle /\ PureInit

\* One run of main up to the end of its "if playlist_url:" lookup, in each
\* variant, with the widgets holding q, url and cookies. The selectors of the run
\* before are filed under the label that run had picked.
SelectQuality ==
    \E q \in Labels, url \in Urls, cookies \in BOOLEAN :
        /\ quality' = q
        /\ playlist_url' = url
        /\ uploaded' = cookies
        /\ format_string' = [v \in Variants |-> main_format_string(v, q, url, cookies)]
        /\ earlier' = IF playlist_url = "" THEN earlier
                      ELSE [earlier EXCEPT ![quality] = @ \cup {format_string}]
        /\ UNCHANGED <<name, sanitized, base_path, output_dir, runVars>>

FormatNext == SelectQuality

SpecFormat == FormatInit /\ [][FormatNext]_vars

\* ================================================================ claims
\* The nine characters the sanitizer is to take out of a folder name.
Reserved == {"<", ">", ":", "\"", "/", "\\", "|", "?", "*"}

\* C1: whatever the input, the name sanitize_filename returns holds none of the
\* nine reserved characters and does not end with a dot or a space.
C1_SanitizedClean ==
    sanitized # Unset =>
        /\ \A i \in DOMAIN sanitized : sanitized[i] \notin Reserved
        /\ sanitized = <<>> \/ sanitized[Len(sanitized)] \notin {".", " "}

\* C1 witness: a name with a reserved character in it and a dot or space at its
\* end has been sanitized to a non-empty name.
C1_Witness ==
    /\ sanitized # Unset
    /\ sanitized # <<>>
    /\ name # <<>>
    /\ name[Len(name)] \in {".", " "}
    /\ \E i \in DOMAIN name : name[i] \in Reserved

\* C2 as stated: a label's selector is the one every earlier run got for that
\* label, whatever the URL and the cookie upload, and it is the same string in
\* app.py, tope.py and playlist.py.
C2_SameInEveryVariant ==
    playlist_url # "" =>
        /\ \A f \in earlier[quality] : f = format_string
        /\ format_string["app"] = format_string["tope"]
        /\ format_string["tope"] = format_string["playlist"]

\* C2 amended: in each variant a label's selector is the one every earlier run
\* got for that label, whatever the URL and the cookie upload, and the three
\* labels have three different selectors; tope.py and playlist.py agree on every
\* label, and app.py agrees with them on "High" (its "Medium (720p)" and
\* "Low (360p)" selectors are other strings).
C2_FixedLookup ==
    playlist_url # "" =>
        /\ \A v \in Variants : format_string[v] # NoFormat
        /\ \A f \in earlier[quality] : f = format_string
        /\ \A q \in Labels \ {quality} : \A f \in earlier[q] : \A v \in Variants :
               f[v] # format_string[v]
        /\ format_string["tope"] = format_string["playlist"]
        /\ quality = "High" => format_string["app"] = format_string["tope"]

\* C2 witness: "Medium (720p)" looked up again, this time with cookies uploaded,
\* after runs that looked up each of the three labels; app.py's selector is not
\* tope.py's.
C2_Witness ==
    /\ playlist_url # ""
    /\ uploaded
    /\ quality = "Medium (720p)"
    /\ \A q \in Labels : earlier[q] # {}
    /\ format_string["app"] # format_string["tope"]

\* The download passes: Download All Videos (app.py, tope.py), the loop of
\* playlist.py once the enumeration has succeeded.
InPass(s) ==
    \/ button[s] = "all"
    \/ variant = "playlist" /\ flat[s] = "exit0"

\* The download processes of session s that have exited.
Exited(s) == {i \in DOMAIN outcomes[s] : outcomes[s][i] # "raised"}

\* C3: within a run at most one yt-dlp process exists at any time; download
\* processes are started in the order of the listing, and one is started only
\* when every one started before it has exited.
C3_Sequential ==
    \A s \in Sessions :
        LET mine == {p \in procs : p.owner = s}
        IN  /\ Cardinality(mine) <= 1
            /\ \A i, j \in DOMAIN started[s] : i < j => started[s][i] < started[s][j]
            /\ \A p \in mine : p.kind = "download" =>
                   /\ started[s] # <<>>
                   /\ p.index = started[s][Len(started[s])]
                   /\ Cardinality(Exited(s)) = Len(started[s]) - 1
            /\ mine = {} => Cardinality(Exited(s)) = Len(started[s])

\* C3 witness: the process of entry 2 runs after that of entry 1 has exited, while
\* the other session's run has a download process of its own.
C3_Witness ==
    \E s, o \in Sessions :
        /\ s # o
        /\ started[s] = <<1, 2>>
        /\ Cardinality(Exited(s)) = 1
        /\ \E p \in procs : p.owner = s /\ p.kind = "download" /\ p.index = 2
        /\ \E p \in procs : p.owner = o /\ p.kind = "download"

\* C4 as stated: a download pass that was entered has, when its run is over,
\* attempted every entry exactly once and moved the progress bar a step for each.
C4_EveryEntryOnce ==
    \A s \in Sessions :
        InPass(s) /\ pc[s] \in Ended =>
            /\ Len(outcomes[s]) = Len(videos_json[s])
            /\ progress_bar[s] = Len(videos_json[s])
            /\ \A k \in DOMAIN videos_json[s] :
                   Cardinality({i \in DOMAIN started[s] : started[s][i] = k}) <= 1

\* C5 as stated: in app.py and tope.py the step that ends a run leaves no cookie
\* file that the run created on disk.
C5_CookieFileGone ==
    [][\A s \in Sessions :
          variant \in {"app", "tope"} /\ pc[s] \notin Ended /\ pc'[s] \in Ended
              /\ created'[s] # None
          => files'[created'[s]] = Absent]_vars

ErrorBanners == {"error fetching playlist", "failed to parse playlist"}

\* The metadata fetch or the enumeration of the run failed: a non-zero exit, or
\* output that is not JSON.
FetchFailed(s) ==
    \/ meta[s] \in {"exit1", "not json"}
    \/ flat[s] = "exit1"
    \/ flat[s] = "exit0" /\ \E i \in DOMAIN videos_json[s] : videos_json[s][i] = "not json"

\* C6 as stated: a run whose metadata fetch or enumeration failed starts no
\* download process, and has rendered an error banner when it is over.
C6_FetchFailureCaught ==
    \A s \in Sessions :
        FetchFailed(s) =>
            /\ started[s] = <<>>
            /\ pc[s] \in Ended => msgs[s] \cap ErrorBanners # {}

\* C7 as stated: while a yt-dlp process runs with --cookies, the file it was
\* given holds what its own session uploaded, and that is what it loaded.
C7_OwnCookies ==
    \A p \in procs :
        p.cookies # None =>
            /\ p.read = Upload(p.owner)
            /\ files[p.cookies] = Upload(p.owner)

\* C8 as stated: playlist.py shows "All videos downloaded successfully!" only
\* when every download process of the run exited with code 0.
C8_AllSucceeded ==
    \A s \in Sessions :
        variant = "playlist" /\ "all videos downloaded" \in msgs[s] =>
            \A i \in DOMAIN outcomes[s] : outcomes[s][i] = "exit0"

\* C9: in a Download All pass of app.py or tope.py, success_count is the number
\* of entries attempted so far whose process exited 0, so it lies between 0 and
\* len(videos); when the count is shown every entry has been attempted, and the
\* count is len(videos) exactly when no download failed or raised.
C9_SuccessCount ==
    \A s \in Sessions :
        variant \in {"app", "tope"} /\ button[s] = "all" =>
            LET n == Len(videos_json[s])
                zero == {i \in DOMAIN outcomes[s] : outcomes[s][i] = "exit0"}
            IN  /\ success_count[s] = Cardinality(zero)
                /\ 0 <= success_count[s] /\ success_count[s] <= n
                /\ "successfully downloaded count" \in msgs[s] =>
                       /\ Len(outcomes[s]) = n
                       /\ success_count[s] = n <=>
                              \A i \in DOMAIN outcomes[s] : outcomes[s][i] = "exit0"

\* C9 witness: the count is shown after a pass over two entries of which one
\* exited 0 and the other did not.
C9_Witness ==
    \E s \in Sessions :
        /\ button[s] = "all"
        /\ "successfully downloaded count" \in msgs[s]
        /\ Len(videos_json[s]) = 2
        /\ success_count[s] = 1
        /\ \E i \in DOMAIN outcomes[s] : outcomes[s][i] # "exit0"

\* C10: a run whose ffmpeg probe failed shows the ffmpeg error and is stopped; it
\* has started no yt-dlp process and created no directory and no cookie file.
C10_FfmpegStops ==
    \A s \in Sessions :
        ffmpeg[s] \in {"exit1", "cannot launch"} =>
            /\ pc[s] = "stopped"
            /\ "ffmpeg not found" \in msgs[s]
            /\ launched[s] = 0
            /\ \A p \in procs : p.owner # s
            /\ dirs[s] = {}
            /\ created[s] = None
            /\ cookies_path[s] = None

\* C10 witness: one session's run was stopped by a probe that could not launch
\* ffmpeg, while the other session's run went on to create its cookie file and
\* start yt-dlp.
C10_Witness ==
    \E s, o \in Sessions :
        /\ s # o
        /\ ffmpeg[s] = "cannot launch"
        /\ pc[s] = "stopped"
        /\ created[o] # None
        /\ launched[o] > 0

\* The separators of the platform's paths.
Separators(base) == IF IsWindows(base) THEN {"/", "\\"} ELSE {"/"}

\* The components of path p: the runs of tokens between separators.
RECURSIVE Components(_, _, _, _)
Components(p, seps, cur, acc) ==
    IF p = <<>> THEN Append(acc, cur)
    ELSE IF Head(p) \in seps THEN Components(Tail(p), seps, <<>>, Append(acc, cur))
    ELSE Components(Tail(p), seps, Append(cur, Head(p)), acc)

\* The directory a list of components names: empty and "." components dropped,
\* ".." stepping up to the parent.
RECURSIVE Resolve(_, _)
Resolve(comps, acc) ==
    IF comps = <<>> THEN acc
    ELSE IF Head(comps) \in {<<>>, <<".">>} THEN Resolve(Tail(comps), acc)
    ELSE IF Head(comps) = <<".", ".">> THEN
        Resolve(Tail(comps), IF acc = <<>> THEN acc ELSE SubSeq(acc, 1, Len(acc) - 1))
    ELSE Resolve(Tail(comps), Append(acc, Head(comps)))

Directory(p, base) == Resolve(Components(p, Separators(base), <<>>, <<>>), <<>>)

\* C11: for every title, the sanitized title holds no "/" and no "\", is neither
\* "." nor "..", and the download directory is base_path itself when the
\* sanitized title is empty and a direct child of base_path otherwise.
C11_StaysInBasePath ==
    sanitized # Unset =>
        LET dir == Directory(output_dir, base_path)
            base == Directory(base_path, base_path)
        IN  /\ \A i \in DOMAIN sanitized : sanitized[i] \notin {"/", "\\"}
            /\ sanitized \notin {<<".">>, <<".", ".">>}
            /\ sanitized = <<>> => dir = base
            /\ sanitized # <<>> => dir = Append(base, sanitized)

\* C11 witness: the title "../" has been sanitized to a non-empty name and
\* joined to the Windows base path.
C11_Witness ==
    /\ sanitized # Unset
    /\ name = <<".", ".", "/">>
    /\ sanitized # <<>>
    /\ IsWindows(base_path)

====
